---------------------------- MODULE Spec2Model ----------------------------
(***************************************************************************)
(* protenix/web_service/dependency_url.py: the module-level dict URL, a    *)
(* registry from resource identifiers to download locations.               *)
(*                                                                         *)
(* The module is one assignment statement, URL = {...}.  Running it        *)
(* evaluates the dict display (three key: value entries, in source order)  *)
(* and then binds the module global URL to the dict that was built.  The   *)
(* module defines no function: what the specification calls                *)
(* lookup(identifier) is the subscript URL[identifier] on that dict, which *)
(* raises KeyError (the specification's NotFound) for an absent key, and   *)
(* enumeration is iteration over the dict's keys.                          *)
(*                                                                         *)
(* A Python str is modelled as the sequence of its characters, so that a   *)
(* location can be taken apart (scheme, host, path, suffix).  Dict keys    *)
(* are only ever compared for equality and are kept as TLA+ strings.       *)
(***************************************************************************)
EXTENDS Integers, Sequences, FiniteSets

(***************************************************************************)
(* Bounds of the model.                                                    *)
(***************************************************************************)
\* Number of concurrent callers (threads that imported URL).
NumCallers == 2

\* Number of stores/deletes callers may perform on the dict (SpecOpen only).
MaxWrites == 1

Callers == 1..NumCallers

(***************************************************************************)
(* The three string literals on the right of the entries, lines 16-18.     *)
(***************************************************************************)
LOC_model_v0_5_0 ==
    <<"h","t","t","p","s",":","/","/","a","f","3","-","d","e","v",".","t","o",
      "s","-","c","n","-","b","e","i","j","i","n","g",".","v","o","l","c","e",
      "s",".","c","o","m","/","r","e","l","e","a","s","e","_","m","o","d","e",
      "l","/","m","o","d","e","l","_","v","0",".","5",".","0",".","p","t">>

LOC_ccd_components_file ==
    <<"h","t","t","p","s",":","/","/","a","f","3","-","d","e","v",".","t","o",
      "s","-","c","n","-","b","e","i","j","i","n","g",".","v","o","l","c","e",
      "s",".","c","o","m","/","r","e","l","e","a","s","e","_","d","a","t","a",
      "/","c","o","m","p","o","n","e","n","t","s",".","v","2","0","2","4","0",
      "6","0","8",".","c","i","f">>

LOC_ccd_components_rdkit_mol_file ==
    <<"h","t","t","p","s",":","/","/","a","f","3","-","d","e","v",".","t","o",
      "s","-","c","n","-","b","e","i","j","i","n","g",".","v","o","l","c","e",
      "s",".","c","o","m","/","r","e","l","e","a","s","e","_","d","a","t","a",
      "/","c","o","m","p","o","n","e","n","t","s",".","v","2","0","2","4","0",
      "6","0","8",".","c","i","f",".","r","d","k","i","t","_","m","o","l",".",
      "p","k","l">>

\* One key: value entry of a dict display.
Entry(k, v) == [key |-> k, value |-> v]

(***************************************************************************)
(* Variants of the dict display, each one slip of the pen away from it.    *)
(***************************************************************************)
\* The model location written with a trailing slash.
URL_TrailingSlash ==
    << Entry("model_v0.5.0", LOC_model_v0_5_0 \o <<"/">>),
       Entry("ccd_components_file", LOC_ccd_components_file),
       Entry("ccd_components_rdkit_mol_file",
             LOC_ccd_components_rdkit_mol_file) >>

\* A location pasted with a blank in it.
URL_Whitespace ==
    << Entry("model_v0.5.0", LOC_model_v0_5_0),
       Entry("ccd_components_file",
             SubSeq(LOC_ccd_components_file, 1, 55) \o <<" ">>
               \o SubSeq(LOC_ccd_components_file, 56,
                         Len(LOC_ccd_components_file))),
       Entry("ccd_components_rdkit_mol_file",
             LOC_ccd_components_rdkit_mol_file) >>

\* The third entry added by copying the second, its value left as copied.
URL_CopiedLocation ==
    << Entry("model_v0.5.0", LOC_model_v0_5_0),
       Entry("ccd_components_file", LOC_ccd_components_file),
       Entry("ccd_components_rdkit_mol_file", LOC_ccd_components_file) >>

\* The components file moved to a new release, the rdkit file left behind.
URL_VersionSkew ==
    << Entry("model_v0.5.0", LOC_model_v0_5_0),
       Entry("ccd_components_file",
             [LOC_ccd_components_file EXCEPT ![75] = "9"]),
       Entry("ccd_components_rdkit_mol_file",
             LOC_ccd_components_rdkit_mol_file) >>

(***************************************************************************)
(* The dict display of lines 15-19: its entries as written, in order.      *)
(***************************************************************************)
URL ==
    << Entry("model_v0.5.0", LOC_model_v0_5_0),
       Entry("ccd_components_file", LOC_ccd_components_file),
       Entry("ccd_components_rdkit_mol_file",
             LOC_ccd_components_rdkit_mol_file) >>

(***************************************************************************)
(* Python's dict, as a function from the keys present to their values.     *)
(***************************************************************************)
EmptyDict == [k \in {} |-> <<>>]

\* d[k] = v: inserts k, or overwrites the value k already has.
SetItem(d, k, v) ==
    [x \in (DOMAIN d) \cup {k} |-> IF x = k THEN v ELSE d[x]]

\* del d[k]
DelItem(d, k) == [x \in (DOMAIN d) \ {k} |-> d[x]]

\* A dict display that loses its last entry.
RECURSIVE DictDisplayDropLast(_)
DictDisplayDropLast(entries) ==
    IF Len(entries) <= 1
    THEN EmptyDict
    ELSE LET n == Len(entries) - 1
         IN  SetItem(DictDisplayDropLast(SubSeq(entries, 1, n)),
                     entries[n].key, entries[n].value)

\* Evaluating a dict display: the entries are inserted left to right, so a
\* key written twice keeps the value of its last entry.
RECURSIVE DictDisplay(_)
DictDisplay(entries) ==
    IF entries = <<>>
    THEN EmptyDict
    ELSE LET n == Len(entries)
         IN  SetItem(DictDisplay(SubSeq(entries, 1, n - 1)),
                     entries[n].key, entries[n].value)

\* The outcomes of a subscript d[k].
Ok(v) == [kind |-> "ok", value |-> v]
KeyError == [kind |-> "KeyError", value |-> <<>>]

\* d.get(k, ""): a default in place of the error.
GetItemDefault(d, k) == IF k \in DOMAIN d THEN Ok(d[k]) ELSE Ok(<<>>)

\* d[k]: the value stored under exactly the key k, KeyError when k is absent.
GetItem(d, k) == IF k \in DOMAIN d THEN Ok(d[k]) ELSE KeyError

(***************************************************************************)
(* The identifiers callers ask for: the three keys and a string that is    *)
(* not a key.  Keys are matched by equality alone, so one absent string    *)
(* stands for every string that is none of the three.                      *)
(***************************************************************************)
Identifiers ==
    { "model_v0.5.0", "ccd_components_file", "ccd_components_rdkit_mol_file",
      "does_not_exist" }

\* What callers store and delete (SpecOpen only): one key of the registry,
\* overwritten with a value that differs from its own, deleted, inserted again.
StoreKeys == { "model_v0.5.0" }

StoreValues == { LOC_ccd_components_file }

(***************************************************************************)
(* State.                                                                  *)
(***************************************************************************)
VARIABLES
    mod_pc,   \* where the module's execution is: "start", "built", "done"
    stack,    \* the value the dict display evaluated to, before it is bound
    builds,   \* how many times the dict display has been evaluated
    ns,       \* the module's namespace: the global names bound, to objects
    pc,       \* pc[c]: "idle", or "subscript" while URL[arg[c]] is running
    arg,      \* arg[c]: the identifier of caller c's current/last lookup
    res,      \* res[c]: the outcome of caller c's last completed lookup
    seen,     \* seen[id]: every outcome any lookup of id has produced
    listed,   \* every key set an enumeration has produced
    writes    \* stores and deletes callers have performed on the dict

vars == <<mod_pc, stack, builds, ns, pc, arg, res, seen, listed, writes>>

NoResult == [kind |-> "none", value |-> <<>>]

\* The module global URL is bound (the import has completed).
Loaded == "URL" \in DOMAIN ns

Init ==
    /\ mod_pc = "start"
    /\ stack = EmptyDict
    /\ builds = 0
    /\ ns = [n \in {} |-> EmptyDict]
    /\ pc = [c \in Callers |-> "idle"]
    /\ arg = [c \in Callers |-> ""]
    /\ res = [c \in Callers |-> NoResult]
    /\ seen = [id \in Identifiers |-> {}]
    /\ listed = {}
    /\ writes = 0

(***************************************************************************)
(* Module execution (the import): line 15-19, right-hand side, then the    *)
(* binding of the name.                                                    *)
(***************************************************************************)
BuildMap ==
    /\ mod_pc = "start"
    /\ stack' = DictDisplay(URL)
    /\ builds' = builds + 1
    /\ mod_pc' = "built"
    /\ UNCHANGED <<ns, pc, arg, res, seen, listed, writes>>

StoreName ==
    /\ mod_pc = "built"
    /\ ns' = [n \in {"URL"} |-> stack]
    /\ mod_pc' = "done"
    /\ UNCHANGED <<stack, builds, pc, arg, res, seen, listed, writes>>

(***************************************************************************)
(* Reads by callers.  A caller holds URL only once its import statement    *)
(* has returned, that is, once the name is bound.                          *)
(***************************************************************************)
\* Caller c starts URL[id].
Call(c, id) ==
    /\ Loaded
    /\ pc[c] = "idle"
    /\ pc' = [pc EXCEPT ![c] = "subscript"]
    /\ arg' = [arg EXCEPT ![c] = id]
    /\ res' = [res EXCEPT ![c] = NoResult]
    /\ UNCHANGED <<mod_pc, stack, builds, ns, seen, listed, writes>>

\* URL.pop(arg[c]): a read that removes what it returns.
ReturnPop(c) ==
    /\ pc[c] = "subscript"
    /\ LET out == GetItem(ns["URL"], arg[c])
       IN  /\ res' = [res EXCEPT ![c] = out]
           /\ seen' = [seen EXCEPT ![arg[c]] = @ \cup {out}]
    /\ ns' = [ns EXCEPT !["URL"] = DelItem(@, arg[c])]
    /\ pc' = [pc EXCEPT ![c] = "idle"]
    /\ UNCHANGED <<mod_pc, stack, builds, arg, listed, writes>>

\* URL.setdefault(arg[c], ""): a miss inserts a default entry.
ReturnSetDefault(c) ==
    /\ pc[c] = "subscript"
    /\ LET d == IF arg[c] \in DOMAIN ns["URL"]
                THEN ns["URL"]
                ELSE SetItem(ns["URL"], arg[c], <<>>)
           out == GetItem(d, arg[c])
       IN  /\ res' = [res EXCEPT ![c] = out]
           /\ seen' = [seen EXCEPT ![arg[c]] = @ \cup {out}]
           /\ ns' = [ns EXCEPT !["URL"] = d]
    /\ pc' = [pc EXCEPT ![c] = "idle"]
    /\ UNCHANGED <<mod_pc, stack, builds, arg, listed, writes>>

\* A subscript that waits until no other caller is inside one.
ReturnLocked(c) ==
    /\ pc[c] = "subscript"
    /\ \A d \in Callers \ {c} : pc[d] = "idle"
    /\ LET out == GetItem(ns["URL"], arg[c])
       IN  /\ res' = [res EXCEPT ![c] = out]
           /\ seen' = [seen EXCEPT ![arg[c]] = @ \cup {out}]
    /\ pc' = [pc EXCEPT ![c] = "idle"]
    /\ UNCHANGED <<mod_pc, stack, builds, ns, arg, listed, writes>>

\* URL[arg[c]] completes: the value, or KeyError raised to the caller.
Return(c) ==
    /\ pc[c] = "subscript"
    /\ LET out == GetItem(ns["URL"], arg[c])
       IN  /\ res' = [res EXCEPT ![c] = out]
           /\ seen' = [seen EXCEPT ![arg[c]] = @ \cup {out}]
    /\ pc' = [pc EXCEPT ![c] = "idle"]
    /\ UNCHANGED <<mod_pc, stack, builds, ns, arg, listed, writes>>

\* Caller c enumerates the identifiers: set(URL).
Enumerate(c) ==
    /\ Loaded
    /\ pc[c] = "idle"
    /\ listed' = listed \cup {DOMAIN ns["URL"]}
    /\ UNCHANGED <<mod_pc, stack, builds, ns, pc, arg, res, seen, writes>>

(***************************************************************************)
(* Writes by callers.  The object bound to URL is an ordinary dict: the    *)
(* language lets whoever holds it store into it and delete from it.  The   *)
(* repository's module performs neither; SpecOpen adds them.               *)
(***************************************************************************)
\* URL[k] = v by caller c.
StoreSubscr(c, k, v) ==
    /\ Loaded
    /\ pc[c] = "idle"
    /\ writes < MaxWrites
    /\ ns' = [ns EXCEPT !["URL"] = SetItem(@, k, v)]
    /\ writes' = writes + 1
    /\ UNCHANGED <<mod_pc, stack, builds, pc, arg, res, seen, listed>>

\* del URL[k] by caller c.
DeleteSubscr(c, k) ==
    /\ Loaded
    /\ pc[c] = "idle"
    /\ writes < MaxWrites
    /\ k \in DOMAIN ns["URL"]
    /\ ns' = [ns EXCEPT !["URL"] = DelItem(@, k)]
    /\ writes' = writes + 1
    /\ UNCHANGED <<mod_pc, stack, builds, pc, arg, res, seen, listed>>

Lookups ==
    \E c \in Callers :
        \/ \E id \in Identifiers : Call(c, id)
        \/ Return(c)
        \/ Enumerate(c)

Stores ==
    \E c \in Callers : \E k \in StoreKeys :
        \/ \E v \in StoreValues : StoreSubscr(c, k, v)
        \/ DeleteSubscr(c, k)

\* The module and the reads the specification gives its callers.
Next == BuildMap \/ StoreName \/ Lookups

Spec == Init /\ [][Next]_vars

\* The same, with callers also storing into and deleting from the dict.
NextOpen == BuildMap \/ StoreName \/ Lookups \/ Stores

SpecOpen == Init /\ [][NextOpen]_vars

(***************************************************************************)
(* The properties.                                                         *)
(***************************************************************************)
\* The dict bound to the module global URL.
Registry == ns["URL"]

\* The table of section 6 of the specification, written out again.
TABLE_model_v0_5_0 ==
    <<"h","t","t","p","s",":","/","/","a","f","3","-","d","e","v",".","t","o",
      "s","-","c","n","-","b","e","i","j","i","n","g",".","v","o","l","c","e",
      "s",".","c","o","m","/","r","e","l","e","a","s","e","_","m","o","d","e",
      "l","/","m","o","d","e","l","_","v","0",".","5",".","0",".","p","t">>

TABLE_ccd_components_file ==
    <<"h","t","t","p","s",":","/","/","a","f","3","-","d","e","v",".","t","o",
      "s","-","c","n","-","b","e","i","j","i","n","g",".","v","o","l","c","e",
      "s",".","c","o","m","/","r","e","l","e","a","s","e","_","d","a","t","a",
      "/","c","o","m","p","o","n","e","n","t","s",".","v","2","0","2","4","0",
      "6","0","8",".","c","i","f">>

TABLE_ccd_components_rdkit_mol_file ==
    <<"h","t","t","p","s",":","/","/","a","f","3","-","d","e","v",".","t","o",
      "s","-","c","n","-","b","e","i","j","i","n","g",".","v","o","l","c","e",
      "s",".","c","o","m","/","r","e","l","e","a","s","e","_","d","a","t","a",
      "/","c","o","m","p","o","n","e","n","t","s",".","v","2","0","2","4","0",
      "6","0","8",".","c","i","f",".","r","d","k","i","t","_","m","o","l",".",
      "p","k","l">>

TableIds ==
    { "model_v0.5.0", "ccd_components_file", "ccd_components_rdkit_mol_file" }

TABLE ==
    [id \in TableIds |->
        CASE id = "model_v0.5.0" -> TABLE_model_v0_5_0
          [] id = "ccd_components_file" -> TABLE_ccd_components_file
          [] id = "ccd_components_rdkit_mol_file" ->
                 TABLE_ccd_components_rdkit_mol_file]

\* The registry holds exactly the three entries of the table.
IsTheTable(d) ==
    /\ DOMAIN d = TableIds
    /\ \A id \in TableIds : d[id] = TABLE[id]

\* C1: a lookup of one of the three identifiers returns exactly the literal
\* location the specification's table lists for it, character for character.
C1_LookupReturnsTableLocation ==
    /\ \A id \in TableIds : \A o \in seen[id] : o = Ok(TABLE[id])
    /\ \A c \in Callers :
          (res[c] # NoResult /\ arg[c] \in TableIds)
              => res[c] = Ok(TABLE[arg[c]])

\* Each of the three identifiers has been looked up.
C1_Witness == \A id \in TableIds : seen[id] # {}

\* C2: a lookup of an identifier that is none of the three keys fails with
\* KeyError (NotFound) and returns no location; KeyError is the only error
\* a lookup produces, and only absent identifiers produce it.
C2_AbsentIsNotFound ==
    /\ \A id \in Identifiers \ TableIds : seen[id] \subseteq {KeyError}
    /\ \A id \in Identifiers : \A o \in seen[id] :
          /\ o.kind \in {"ok", "KeyError"}
          /\ (o.kind = "KeyError") <=> (id \notin TableIds)
          /\ (o.kind = "KeyError") => (o.value = <<>>)

\* An absent identifier and a present one have both been looked up.
C2_Witness ==
    /\ seen["does_not_exist"] # {}
    /\ seen["ccd_components_file"] # {}

\* C3, as claimed: whatever callers do with the dict, in every state after
\* module initialization it holds exactly the three entries, and every
\* enumeration yields the same set of identifiers.
C3_ImmutableUnderAnyOperation ==
    Loaded => (IsTheTable(Registry) /\ Cardinality(listed) <= 1)

\* C3, amended: as long as callers only read the dict (look up, enumerate)
\* and none has stored into it or deleted from it, it holds exactly the
\* three entries and every enumeration yields the same set of identifiers.
C3_UnchangedByReads ==
    (Loaded /\ writes = 0)
        => (IsTheTable(Registry) /\ listed \subseteq {TableIds})

\* Lookups that hit and that miss and an enumeration have happened, and no
\* caller has written.
C3_Witness ==
    /\ writes = 0
    /\ listed # {}
    /\ seen["model_v0.5.0"] # {}
    /\ seen["does_not_exist"] # {}

\* C4: every lookup of an identifier has the same outcome, however many
\* times it is repeated and whatever other lookups run in between.
C4_LookupIdempotent ==
    /\ \A id \in Identifiers : Cardinality(seen[id]) <= 1
    /\ \A c \in Callers :
          res[c] # NoResult => seen[arg[c]] = {res[c]}

\* Two lookups of the same identifier have returned, with a lookup of
\* another identifier done as well and, when there is a third caller, in
\* flight.
C4_Witness ==
    \E c, d \in Callers :
        /\ c # d
        /\ res[c] # NoResult
        /\ res[d] # NoResult
        /\ arg[c] = arg[d]
        /\ \E id \in Identifiers \ {arg[c]} : seen[id] # {}

\* C5: the step that completes a lookup, with a location or with KeyError,
\* leaves the registry as it was: same identifiers, same locations.
C5_LookupHasNoSideEffect ==
    [][\A c \in Callers :
          (pc[c] = "subscript" /\ pc'[c] = "idle")
              => (ns' = ns /\ stack' = stack /\ builds' = builds)]_vars

\* A lookup has failed and another has succeeded.
C5_Witness ==
    /\ seen["does_not_exist"] = {KeyError}
    /\ \E c \in Callers : res[c] # NoResult /\ res[c].kind = "ok"

\* C6: a lookup in flight can always complete, whatever the other callers
\* are doing, and what it returns is what the same lookup returns on the
\* registry as built, with no other caller around.
C6_ConcurrentLookups ==
    \A c \in Callers :
        /\ pc[c] = "subscript" => ENABLED Return(c)
        /\ res[c] # NoResult => res[c] = GetItem(DictDisplay(URL), arg[c])

\* Every caller is inside a lookup at once, two of them of the same
\* identifier.
C6_Witness ==
    /\ \A c \in Callers : pc[c] = "subscript"
    /\ \E c, d \in Callers : c # d /\ arg[c] = arg[d]

(***************************************************************************)
(* The parts of a location scheme://host/path.                             *)
(***************************************************************************)
\* The first position at which sub occurs in s, 0 when it does not.
IndexOf(s, sub) ==
    LET hits == { i \in 1..(Len(s) + 1 - Len(sub)) :
                      SubSeq(s, i, i + Len(sub) - 1) = sub }
    IN  IF hits = {} THEN 0
        ELSE CHOOSE i \in hits : \A j \in hits : i <= j

Scheme(s) ==
    LET i == IndexOf(s, <<":", "/", "/">>)
    IN  IF i = 0 THEN <<>> ELSE SubSeq(s, 1, i - 1)

AfterScheme(s) ==
    LET i == IndexOf(s, <<":", "/", "/">>)
    IN  IF i = 0 THEN <<>> ELSE SubSeq(s, i + 3, Len(s))

Host(s) ==
    LET r == AfterScheme(s)
        j == IndexOf(r, <<"/">>)
    IN  IF j = 0 THEN r ELSE SubSeq(r, 1, j - 1)

Path(s) ==
    LET r == AfterScheme(s)
        j == IndexOf(r, <<"/">>)
    IN  IF j = 0 THEN <<>> ELSE SubSeq(r, j, Len(r))

Whitespace == { " ", "\t", "\n", "\r" }

WellFormedAbsoluteURL(s) ==
    /\ Scheme(s) = <<"h", "t", "t", "p", "s">>
    /\ Host(s) # <<>>
    /\ Path(s) # <<>>
    /\ \A i \in 1..Len(s) : s[i] \notin Whitespace

\* How many entries of the dict display are written with key k.
Occurrences(k) == Cardinality({ i \in 1..Len(URL) : URL[i].key = k })

\* C7: every location in the registry is a well-formed absolute URL (scheme
\* https, a host, a path, no whitespace), and every identifier is the key of
\* exactly one entry.
C7_WellFormedAndUnique ==
    Loaded =>
        /\ \A k \in DOMAIN Registry :
              /\ WellFormedAbsoluteURL(Registry[k])
              /\ Occurrences(k) = 1
        /\ Cardinality(DOMAIN Registry) = Len(URL)

\* The registry is bound and its locations have been handed to callers.
C7_Witness ==
    /\ Loaded
    /\ \A c \in Callers : res[c] # NoResult /\ res[c].kind = "ok"

\* Every entry of the dict display is in the registry.
Populated ==
    /\ Loaded
    /\ \A i \in 1..Len(URL) :
          /\ URL[i].key \in DOMAIN Registry
          /\ Registry[URL[i].key] = URL[i].value

\* C8: the registry is built once, when the module is executed, and is
\* complete before any caller can read it: a lookup or an enumeration never
\* runs against an empty or partly filled registry, and the registry is not
\* built again or unbound afterwards.
C8_BuiltOnceBeforeAnyLookup ==
    /\ builds <= 1
    /\ Loaded => (mod_pc = "done" /\ builds = 1 /\ Populated)
    /\ \A c \in Callers :
          (pc[c] = "subscript" \/ res[c] # NoResult) => Populated
    /\ listed # {} => Populated

\* A lookup is in flight while another caller holds the result of one.
C8_Witness ==
    \E c, d \in Callers :
        /\ pc[c] = "subscript"
        /\ res[d] # NoResult
        /\ builds = 1

\* C9: two different identifiers never have the same location.
C9_Injective ==
    Loaded =>
        \A k1, k2 \in DOMAIN Registry :
            k1 # k2 => Registry[k1] # Registry[k2]

\* Every identifier the registry enumerates has been fetched.
C9_Witness ==
    /\ listed # {}
    /\ \A ks \in listed : \A k \in ks : \E o \in seen[k] : o.kind = "ok"

SUFFIX_rdkit_mol_pkl ==
    <<".","r","d","k","i","t","_","m","o","l",".","p","k","l">>

RELEASE_v20240608 == <<"v","2","0","2","4","0","6","0","8">>

\* C10: the location of ccd_components_rdkit_mol_file is the location of
\* ccd_components_file followed by ".rdkit_mol.pkl", and both name the
\* components release v20240608.
C10_ComponentsSameRelease ==
    Loaded =>
        /\ Registry["ccd_components_rdkit_mol_file"]
              = Registry["ccd_components_file"] \o SUFFIX_rdkit_mol_pkl
        /\ IndexOf(Registry["ccd_components_file"], RELEASE_v20240608) # 0
        /\ IndexOf(Registry["ccd_components_rdkit_mol_file"],
                   RELEASE_v20240608) # 0

\* Both components locations have been looked up.
C10_Witness ==
    /\ seen["ccd_components_file"] # {}
    /\ seen["ccd_components_rdkit_mol_file"] # {}

=============================================================================
